---- MODULE Spec2Model ----
(***************************************************************************)
(* Model of the lambdalabs Terraform provider (internal/provider): the     *)
(* provider Configure, and the Create / Read / Update / Delete /           *)
(* ImportState handlers of the instance and SSH-key resources, run by a    *)
(* host that serialises the operations of each resource, against a remote  *)
(* service that answers each request once.                                 *)
(***************************************************************************)
EXTENDS Integers, Sequences, FiniteSets, TLC

VARIABLES
    managed,          \* the kind of resource the host's configuration declares
    providerData,     \* resp.ResourceData cached by the host after provider Configure
    configDiags,      \* diagnostics of the provider Configure
    instState,        \* host-side state of the instance resource: <<>> or <<record>>
    keyState,         \* host-side state of the SSH-key resource: <<>> or <<record>>
    remoteInstances,  \* the remote service's instances (a set of Instance records)
    remoteKeys,       \* the remote service's SSH keys (the list GET ssh-keys returns)
    last,             \* the last handler invocation: inputs, requests, response, outcome
    prev              \* summary of the invocation before it

vars == <<managed, providerData, configDiags, instState, keyState, remoteInstances, remoteKeys, last, prev>>

----------------------------------------------------------------------------
(* Bounds of the model *)

\* longest ssh_key_names list a configuration holds
MaxKeys == 2
\* most instance ids a launch response carries
MaxLaunched == 2
\* number of identifiers the remote service can assign per kind
MaxIds == 2

(* Program constants *)
StatusOK == 200
StatusNotFound == 404
StatusServerError == 500
Quantity == 1

----------------------------------------------------------------------------
(* Values of the plugin framework (types.String, types.List), of Go and    *)
(* of JSON                                                                  *)

Null == "<null>"          \* types.StringNull()
Unknown == "<unknown>"    \* a computed attribute not yet known in a plan
Nil == "<nil>"            \* Go nil interface / nil pointer
Omitted == "<omitted>"    \* a string field json.Marshal leaves out (omitempty)

IsNull(v) == v = Null
\* types.String.ValueString: "" for null and unknown
ValueString(v) == IF v \in {Null, Unknown} THEN "" ELSE v
\* types.StringValue
StringValue(s) == s

\* types.List, Go []string and JSON arrays share one shape, told apart by tag
ListNull == [tag |-> "tf-null", elems |-> <<>>]
ListValue(s) == [tag |-> "tf-list", elems |-> s]
NilSlice == [tag |-> "go-nil", elems |-> <<>>]
Slice(s) == [tag |-> "go-slice", elems |-> s]
JsonNull == [tag |-> "json-null", elems |-> <<>>]
JsonOmitted == [tag |-> "json-omitted", elems |-> <<>>]
JsonArray(s) == [tag |-> "json-array", elems |-> s]

\* types.List.ElementsAs into a []string
ElementsAs(l) == IF l.tag = "tf-null" THEN NilSlice ELSE Slice(l.elems)
\* types.ListValueFrom of a []string: a nil slice gives a null list
ListValueFrom(s) == IF s.tag = "go-nil" THEN ListNull ELSE ListValue(s.elems)
\* json.Marshal of a []string field
Marshal(s) == IF s.tag = "go-nil" THEN JsonNull ELSE JsonArray(s.elems)
\* json.Marshal of a []string field tagged omitempty
MarshalOmitEmpty(s) == IF Len(s.elems) = 0 THEN JsonOmitted ELSE JsonArray(s.elems)
\* json.Decode into a []string field
Unmarshal(j) == IF j.tag = "json-array" THEN Slice(j.elems) ELSE NilSlice

----------------------------------------------------------------------------
(* Domains the host and the remote service draw their inputs from *)

Regions == {"us-west-1"}
InstanceTypes == {"gpu_1x_a10"}
KeyNames == {"laptop"}
SSHKeyResourceNames == {"one", "two"}
FileSystems == {"fs"}
DisplayNames == {"box"}
PublicKeys == {"need some here"}
PrivateMaterial == "-----PRIVATE-----"
GeneratedPublic == "ssh-ed25519 generated"
ForeignName == "someone else's"
RemoteIP == "10.0.0.1"
RemoteStatus == "active"

InstanceIds == {"i-" \o ToString(k) : k \in 1..MaxIds}
KeyIds == {"sshkey-" \o ToString(k) : k \in 1..MaxIds}

SeqsUpTo(S, n) == UNION {[1..k -> S] : k \in 0..n}

NoState == <<>>
State(r) == <<r>>

----------------------------------------------------------------------------
(* The remote service: what it answers to each request, and what it keeps. *)
(* A response is a transport failure, or a status with a body; a body is   *)
(* undecodable, an error envelope, or the data of the endpoint.            *)

Garbage == [valid |-> FALSE, message |-> "", data |-> <<>>]
ErrorEnvelope(m) == [valid |-> TRUE, message |-> m, data |-> <<>>]
Data(d) == [valid |-> TRUE, message |-> "", data |-> <<d>>]

TransportError == [err |-> TRUE, status |-> 0, body |-> Garbage]
Resp(status, body) == [err |-> FALSE, status |-> status, body |-> body]

Exchange(resp, remote) == [resp |-> resp, remote |-> remote]

\* answers any endpoint may give whatever the request; the service then does
\* nothing
Faults ==
    {TransportError,
     Resp(StatusServerError, ErrorEnvelope("internal error")),
     Resp(StatusServerError, Garbage)}

\* a success status whose body does not decode
Undecodable == Resp(StatusOK, Garbage)

NotFoundAnswers ==
    {Resp(StatusNotFound, ErrorEnvelope("not found")),
     Resp(StatusNotFound, Garbage)}

InstanceIdOf(k) == "i-" \o ToString(k)
KeyIdOf(k) == "sshkey-" \o ToString(k)

\* the n lowest numbers of 1..MaxIds whose identifier satisfies Free, in order
RECURSIVE Lowest(_, _, _)
Lowest(free, from, n) ==
    IF n = 0 \/ from > MaxIds THEN <<>>
    ELSE IF from \in free THEN <<from>> \o Lowest(free, from + 1, n - 1)
    ELSE Lowest(free, from + 1, n)

FreeInstanceNumbers(remote) == {k \in 1..MaxIds : \A i \in remote : i.id # InstanceIdOf(k)}

\* the instance the service runs for a launch request
Launched(id, body) ==
    [id |-> id, ip |-> RemoteIP, status |-> RemoteStatus,
     ssh_key_names |-> body.ssh_key_names,
     region |-> body.region_name, instance_type |-> body.instance_type_name]

\* POST instance-operations/launch
LaunchExchange(remote, body) ==
    {Exchange(f, remote) : f \in Faults \cup {Undecodable}}
    \cup
    {LET ks == Lowest(FreeInstanceNumbers(remote), 1, n)
         ids == [j \in 1..n |-> InstanceIdOf(ks[j])]
     IN  Exchange(Resp(StatusOK, Data([instance_ids |-> JsonArray(ids)])),
                  remote \cup {Launched(ids[j], body) : j \in 1..n})
     : n \in {m \in 0..MaxLaunched : m <= Cardinality(FreeInstanceNumbers(remote))}}

\* GET instances/{id}
GetInstanceExchange(remote, id) ==
    {Exchange(f, remote) : f \in Faults \cup {Undecodable}}
    \cup
    (IF \E i \in remote : i.id = id
     THEN {Exchange(Resp(StatusOK, Data(i)), remote) : i \in {x \in remote : x.id = id}}
     ELSE {Exchange(r, remote) : r \in NotFoundAnswers})

\* POST instance-operations/terminate
TerminateExchange(remote, body) ==
    {Exchange(f, remote) : f \in Faults}
    \cup
    (LET hit == {x \in remote : \E j \in 1..Len(body.instance_ids.elems) :
                                   x.id = body.instance_ids.elems[j]}
     IN  IF hit # {}
         THEN {Exchange(r, remote \ hit)
               : r \in {Resp(StatusOK, Data([terminated_instances |-> hit])), Undecodable}}
         ELSE {Exchange(r, remote) : r \in NotFoundAnswers})

KeyIdsOf(keys) == {keys[j].id : j \in 1..Len(keys)}
FreeKeyNumbers(keys) == {k \in 1..MaxIds : KeyIdOf(k) \notin KeyIdsOf(keys)}

\* POST ssh-keys: the service stores the key; it may generate a key pair and
\* return the private half, which it may or may not keep
AddKeyExchange(keys, body) ==
    {Exchange(f, keys) : f \in Faults \cup {Undecodable}}
    \cup
    (IF FreeKeyNumbers(keys) = {} THEN {}
     ELSE LET id == KeyIdOf(Lowest(FreeKeyNumbers(keys), 1, 1)[1])
              pub == IF body.public_key = Omitted THEN GeneratedPublic ELSE body.public_key
              key(priv) == [id |-> id, name |-> body.name, public_key |-> pub,
                            private_key |-> priv]
          IN  {Exchange(Resp(StatusOK, Data(key(p[1]))), Append(keys, key(p[2])))
               : p \in {<<"", "">>, <<PrivateMaterial, "">>,
                        <<PrivateMaterial, PrivateMaterial>>}})

\* GET ssh-keys
ListKeysExchange(keys) ==
    {Exchange(f, keys) : f \in Faults \cup {Undecodable, Resp(StatusOK, Data(keys))}}

\* DELETE ssh-keys/{id}
DeleteKeyExchange(keys, id) ==
    {Exchange(f, keys) : f \in Faults}
    \cup
    (IF id \in KeyIdsOf(keys)
     THEN {Exchange(r, SelectSeq(keys, LAMBDA k : k.id # id))
           : r \in {Resp(StatusOK, Data(<<>>)), Undecodable}}
     ELSE {Exchange(r, keys) : r \in NotFoundAnswers})

----------------------------------------------------------------------------
(* What a handler invocation does: the requests it sends, the response it  *)
(* got, the diagnostics it reports, whether it panicked, and what it wrote *)
(* to the state of the response.                                           *)

Diag(summary, detail) == [summary |-> summary, detail |-> detail]

NoWrite == <<"none">>
SetState(data) == <<"set", data>>
RemoveResource == <<"remove">>

Outcome(diags, write) == [diags |-> diags, panicked |-> FALSE, write |-> write]
Panic == [diags |-> <<>>, panicked |-> TRUE, write |-> NoWrite]

Run(requests, resp, outcome, remote) ==
    [requests |-> requests, resp |-> resp, diags |-> outcome.diags,
     panicked |-> outcome.panicked, write |-> outcome.write, remote |-> remote]

\* the state the host holds after the handler returns
ApplyWrite(state, write) ==
    IF write[1] = "set" THEN State(write[2])
    ELSE IF write[1] = "remove" THEN NoState
    ELSE state

\* req.Plan.Get / req.State.Get into a struct: the struct's tfsdk tags and the
\* object's attributes must be the same set, else an error diagnostic
Get(structTags, object) ==
    IF structTags = DOMAIN object THEN <<>>
    ELSE <<Diag("Value Conversion Error", "mismatch between struct and object")>>

\* path segments no URL can hold: an invalid percent-escape
UnparsableIds == {"%zz"}
\* http.NewRequestWithContext parses the URL, given as its path segments
ParsesAsURL(url) == \A j \in 1..Len(url) : url[j] \notin UnparsableIds
\* what is left of a call that dereferenced a nil *http.Request
NilDereference == [panic |-> "nil pointer dereference"]

\* helper.go: one request, sent once, with the API key as basic-auth user.
\* SetBasicAuth is called on the request before the error of its construction
\* is looked at: when the URL does not parse the request is nil and the call
\* panics
MakeAPICall(apiKey, method, url, data) ==
    IF ~ParsesAsURL(url) THEN NilDereference
    ELSE [user |-> apiKey, password |-> "", method |-> method, url |-> url, body |-> data]

\* the body of a non-200 response decoded as InstanceAPIErrorResponse
ErrorDiags(body) ==
    IF ~body.valid THEN <<Diag("json error", "decode")>>
    ELSE <<Diag("client error", body.message)>>

----------------------------------------------------------------------------
(* provider.go *)

ConfigValues == {Null, "", "config-key"}
EnvValues == {"", "env-key"}

\* LambdaProvider.Configure: the diagnostics and resp.ResourceData
ProviderConfigureResult(config, env) ==
    LET apiKey == IF ~IsNull(config.api_key) THEN ValueString(config.api_key) ELSE env
    IN  [diags |-> IF apiKey = ""
                   THEN <<Diag("Missing API key Configuration", "not found")>>
                   ELSE <<>>,
         resourceData |-> apiKey]

\* InstanceResource.Configure / SSHKeyResource.Configure: r.apiKey
ResourceConfigure(data) == IF data = Nil THEN "" ELSE data

----------------------------------------------------------------------------
(* instance_resource.go *)

InstanceResourceModelTags ==
    {"region_name", "instance_type_name", "ssh_key_names", "file_system_names",
     "name", "ip", "status", "id"}
\* struct InstanceResource has the one field apiKey, unexported and untagged
InstanceResourceTags == {}

\* the launch request; a nil name is sent as JSON null
InstanceCreateAPIRequest(data, sshKeys, fileSystemNames, name) ==
    [region_name |-> ValueString(data.region_name),
     instance_type_name |-> ValueString(data.instance_type_name),
     ssh_key_names |-> Marshal(sshKeys),
     file_system_names |-> MarshalOmitEmpty(fileSystemNames),
     Quantity |-> Quantity,
     name |-> name]

\* Create accepting any response that carries at least one identifier
InstanceCreateResponse_AtLeastOne(data, resp) ==
    IF resp.err THEN Outcome(<<Diag("Client Error", "Unable to create example")>>, NoWrite)
    ELSE IF resp.status # StatusOK THEN Outcome(ErrorDiags(resp.body), NoWrite)
    ELSE IF ~resp.body.valid THEN Outcome(<<Diag("json error", "decode")>>, NoWrite)
    ELSE LET ids == Unmarshal(resp.body.data[1].instance_ids).elems
         IN  IF Len(ids) < 1
             THEN Outcome(<<Diag("resp error", "expected 1 response")>>, NoWrite)
             ELSE Outcome(<<>>, SetState([data EXCEPT !.ip = Null, !.status = Null,
                                                      !.id = StringValue(ids[1])]))

\* Create, after the launch call returned
InstanceCreateResponse(data, resp) ==
    IF resp.err THEN Outcome(<<Diag("Client Error", "Unable to create example")>>, NoWrite)
    ELSE IF resp.status # StatusOK THEN Outcome(ErrorDiags(resp.body), NoWrite)
    ELSE IF ~resp.body.valid THEN Outcome(<<Diag("json error", "decode")>>, NoWrite)
    ELSE LET ids == Unmarshal(resp.body.data[1].instance_ids).elems
         IN  IF Len(ids) # 1
             THEN Outcome(<<Diag("resp error", "expected 1 response")>>, NoWrite)
             ELSE Outcome(<<>>, SetState([data EXCEPT !.ip = Null, !.status = Null,
                                                      !.id = StringValue(ids[1])]))

\* InstanceResource.Create: every way one invocation can go
InstanceCreateRuns(data, apiKey, remote) ==
    IF Get(InstanceResourceModelTags, data) # <<>>
    THEN {Run(<<>>, <<>>, Outcome(Get(InstanceResourceModelTags, data), NoWrite), remote)}
    ELSE LET sshKeys == ElementsAs(data.ssh_key_names)
             fileSystemNames == IF data.file_system_names.tag # "tf-null"
                                THEN ElementsAs(data.file_system_names) ELSE NilSlice
             name == Nil
         IN  IF ~IsNull(data.name) /\ name = Nil
             THEN {Run(<<>>, <<>>, Panic, remote)}
             ELSE LET req == MakeAPICall(apiKey, "POST", <<"instance-operations/launch">>,
                                 InstanceCreateAPIRequest(data, sshKeys, fileSystemNames, name))
                  IN  IF req = NilDereference THEN {Run(<<>>, <<>>, Panic, remote)}
                      ELSE {Run(<<req>>, <<x.resp>>, InstanceCreateResponse(data, x.resp),
                                x.remote)
                            : x \in LaunchExchange(remote, req.body)}

\* Read without the early not-found return: 404 is handled with the other
\* non-success statuses (error reported, then the resource removed)
InstanceReadResponse_Late404(data, resp) ==
    IF resp.err THEN Outcome(<<Diag("resp error", "transport")>>, NoWrite)
    ELSE IF resp.status # StatusOK
         THEN IF ~resp.body.valid THEN Outcome(ErrorDiags(resp.body), NoWrite)
              ELSE Outcome(ErrorDiags(resp.body),
                           IF resp.status = StatusNotFound THEN RemoveResource ELSE NoWrite)
    ELSE IF ~resp.body.valid THEN Outcome(<<Diag("json error", "decode")>>, NoWrite)
    ELSE LET respData == resp.body.data[1]
         IN  Outcome(<<>>, SetState(
                 [data EXCEPT !.ssh_key_names = ListValueFrom(Unmarshal(respData.ssh_key_names)),
                              !.instance_type_name = StringValue(respData.instance_type),
                              !.region_name = StringValue(respData.region)]))

\* Read with the region and the instance type taken from each other's field
InstanceReadResponse_Swapped(data, resp) ==
    IF resp.err THEN Outcome(<<Diag("resp error", "transport")>>, NoWrite)
    ELSE IF resp.status = StatusNotFound THEN Outcome(<<>>, RemoveResource)
    ELSE IF resp.status # StatusOK THEN Outcome(ErrorDiags(resp.body), NoWrite)
    ELSE IF ~resp.body.valid THEN Outcome(<<Diag("json error", "decode")>>, NoWrite)
    ELSE LET respData == resp.body.data[1]
         IN  Outcome(<<>>, SetState(
                 [data EXCEPT !.ssh_key_names = ListValueFrom(Unmarshal(respData.ssh_key_names)),
                              !.instance_type_name = StringValue(respData.region),
                              !.region_name = StringValue(respData.instance_type)]))

\* Read, after the GET returned
InstanceReadResponse(data, resp) ==
    IF resp.err THEN Outcome(<<Diag("resp error", "transport")>>, NoWrite)
    ELSE IF resp.status = StatusNotFound THEN Outcome(<<>>, RemoveResource)
    ELSE IF resp.status # StatusOK
         THEN IF ~resp.body.valid THEN Outcome(ErrorDiags(resp.body), NoWrite)
              ELSE Outcome(ErrorDiags(resp.body),
                           IF resp.status = StatusNotFound THEN RemoveResource ELSE NoWrite)
    ELSE IF ~resp.body.valid THEN Outcome(<<Diag("json error", "decode")>>, NoWrite)
    ELSE LET respData == resp.body.data[1]
         IN  Outcome(<<>>, SetState(
                 [data EXCEPT !.ssh_key_names = ListValueFrom(Unmarshal(respData.ssh_key_names)),
                              !.instance_type_name = StringValue(respData.instance_type),
                              !.region_name = StringValue(respData.region)]))

InstanceReadRuns(data, apiKey, remote) ==
    IF Get(InstanceResourceModelTags, data) # <<>>
    THEN {Run(<<>>, <<>>, Outcome(Get(InstanceResourceModelTags, data), NoWrite), remote)}
    ELSE LET req == MakeAPICall(apiKey, "GET", <<"instances", ValueString(data.id)>>, Nil)
         IN  IF req = NilDereference THEN {Run(<<>>, <<>>, Panic, remote)}
             ELSE {Run(<<req>>, <<x.resp>>, InstanceReadResponse(data, x.resp), x.remote)
                   : x \in GetInstanceExchange(remote, req.url[2])}

\* InstanceResource.Update: the plan is read into a *InstanceResource
InstanceUpdateRuns(data, apiKey, remote) ==
    IF Get(InstanceResourceTags, data) # <<>>
    THEN {Run(<<>>, <<>>, Outcome(Get(InstanceResourceTags, data), NoWrite), remote)}
    ELSE {Run(<<>>, <<>>, Outcome(<<>>, SetState(data)), remote)}

\* Delete, after the terminate call returned
InstanceDeleteResponse(data, resp) ==
    IF resp.err THEN Outcome(<<Diag("resp error", "transport")>>, NoWrite)
    ELSE IF resp.status # StatusOK /\ resp.status # StatusNotFound
         THEN Outcome(ErrorDiags(resp.body), NoWrite)
    ELSE IF ~resp.body.valid THEN Outcome(<<Diag("json error", "decode")>>, NoWrite)
    ELSE Outcome(<<>>, NoWrite)

InstanceDeleteRuns(data, apiKey, remote) ==
    IF Get(InstanceResourceModelTags, data) # <<>>
    THEN {Run(<<>>, <<>>, Outcome(Get(InstanceResourceModelTags, data), NoWrite), remote)}
    ELSE LET req == MakeAPICall(apiKey, "POST", <<"instance-operations/terminate">>,
                        [instance_ids |-> Marshal(Slice(<<ValueString(data.id)>>))])
         IN  IF req = NilDereference THEN {Run(<<>>, <<>>, Panic, remote)}
             ELSE {Run(<<req>>, <<x.resp>>, InstanceDeleteResponse(data, x.resp), x.remote)
                   : x \in TerminateExchange(remote, req.body)}

\* InstanceResource.ImportState: resource.ImportStatePassthroughID on path id
InstanceImportRuns(id, apiKey, remote) ==
    {Run(<<>>, <<>>,
         Outcome(<<>>, SetState([region_name |-> Null, instance_type_name |-> Null,
                                 ssh_key_names |-> ListNull, file_system_names |-> ListNull,
                                 name |-> Null, ip |-> Null, status |-> Null,
                                 id |-> StringValue(id)])),
         remote)}

----------------------------------------------------------------------------
(* ssh_key_resource.go *)

SSHKeyResourceModelTags == {"name", "public_key", "private_key", "id"}

SSHKeyCreateRequest(data) ==
    LET PublicKey == IF ~IsNull(data.public_key) THEN ValueString(data.public_key) ELSE ""
    IN  [name |-> ValueString(data.name),
         public_key |-> IF PublicKey = "" THEN Omitted ELSE PublicKey]

\* the private_key attribute left as it was when the response carries none
PrivateKeyValue_KeepOld(PrivateKey, old) ==
    IF PrivateKey # "" THEN StringValue(PrivateKey) ELSE old

\* the private_key attribute for the private key of a response
PrivateKeyValue(PrivateKey, old) ==
    IF PrivateKey # "" THEN StringValue(PrivateKey) ELSE Null

\* Create going on after a body that does not decode: the error is reported and
\* the zero-valued response is saved
SSHKeyCreateResponse_SaveUndecoded(data, resp) ==
    IF resp.err THEN Outcome(<<Diag("Client Error", "Unable to create example")>>, NoWrite)
    ELSE IF resp.status # StatusOK THEN Outcome(ErrorDiags(resp.body), NoWrite)
    ELSE IF ~resp.body.valid
         THEN Outcome(<<Diag("json error", "decode")>>,
                      SetState([data EXCEPT !.id = StringValue(""),
                                            !.name = StringValue(""),
                                            !.private_key = PrivateKeyValue("", data.private_key)]))
    ELSE LET respData == resp.body.data[1]
         IN  Outcome(<<>>, SetState(
                 [data EXCEPT !.id = StringValue(respData.id),
                              !.name = StringValue(respData.name),
                              !.private_key = PrivateKeyValue(respData.private_key,
                                                              data.private_key)]))

\* Create, after the POST returned
SSHKeyCreateResponse(data, resp) ==
    IF resp.err THEN Outcome(<<Diag("Client Error", "Unable to create example")>>, NoWrite)
    ELSE IF resp.status # StatusOK THEN Outcome(ErrorDiags(resp.body), NoWrite)
    ELSE IF ~resp.body.valid THEN Outcome(<<Diag("json error", "decode")>>, NoWrite)
    ELSE LET respData == resp.body.data[1]
         IN  Outcome(<<>>, SetState(
                 [data EXCEPT !.id = StringValue(respData.id),
                              !.name = StringValue(respData.name),
                              !.private_key = PrivateKeyValue(respData.private_key,
                                                              data.private_key)]))

SSHKeyCreateRuns(data, apiKey, remote) ==
    IF Get(SSHKeyResourceModelTags, data) # <<>>
    THEN {Run(<<>>, <<>>, Outcome(Get(SSHKeyResourceModelTags, data), NoWrite), remote)}
    ELSE LET req == MakeAPICall(apiKey, "POST", <<"ssh-keys">>, SSHKeyCreateRequest(data))
         IN  IF req = NilDereference THEN {Run(<<>>, <<>>, Panic, remote)}
             ELSE {Run(<<req>>, <<x.resp>>, SSHKeyCreateResponse(data, x.resp), x.remote)
                   : x \in AddKeyExchange(remote, req.body)}

\* findKey: the first key of the list with the identifier, <<>> for nil
RECURSIVE findKeyFrom(_, _, _)
findKeyFrom(keys, id, i) ==
    IF i > Len(keys) THEN <<>>
    ELSE IF keys[i].id = id THEN <<keys[i]>>
    ELSE findKeyFrom(keys, id, i + 1)

\* findKey returning the last key of the list with the identifier
findKey_LastMatch(keys, id) ==
    LET hits == SelectSeq(keys, LAMBDA k : k.id = id)
    IN  IF hits = <<>> THEN <<>> ELSE <<hits[Len(hits)]>>

findKey(keys, id) == findKeyFrom(keys, id, 1)

\* Read taking the first key the service lists, whatever its identifier
SSHKeyReadResponse_FirstListed(data, resp) ==
    IF resp.err THEN Outcome(<<Diag("Client Error", "Unable to create example")>>, NoWrite)
    ELSE IF resp.status # StatusOK THEN Outcome(ErrorDiags(resp.body), NoWrite)
    ELSE IF ~resp.body.valid THEN Outcome(<<Diag("json error", "decode")>>, NoWrite)
    ELSE LET keys == resp.body.data[1]
             key == IF Len(keys) = 0 THEN <<>> ELSE <<keys[1]>>
         IN  IF key = <<>> THEN Outcome(<<>>, RemoveResource)
             ELSE Outcome(<<>>, SetState(
                      [data EXCEPT !.id = StringValue(key[1].id),
                                   !.name = StringValue(key[1].name),
                                   !.public_key = StringValue(key[1].public_key),
                                   !.private_key = PrivateKeyValue(key[1].private_key,
                                                                   data.private_key)]))

\* Read, after the GET returned
SSHKeyReadResponse(data, resp) ==
    IF resp.err THEN Outcome(<<Diag("Client Error", "Unable to create example")>>, NoWrite)
    ELSE IF resp.status # StatusOK THEN Outcome(ErrorDiags(resp.body), NoWrite)
    ELSE IF ~resp.body.valid THEN Outcome(<<Diag("json error", "decode")>>, NoWrite)
    ELSE LET key == findKey(resp.body.data[1], ValueString(data.id))
         IN  IF key = <<>> THEN Outcome(<<>>, RemoveResource)
             ELSE Outcome(<<>>, SetState(
                      [data EXCEPT !.id = StringValue(key[1].id),
                                   !.name = StringValue(key[1].name),
                                   !.public_key = StringValue(key[1].public_key),
                                   !.private_key = PrivateKeyValue(key[1].private_key,
                                                                   data.private_key)]))

\* Read sending the GET a second time when the first exchange failed
SSHKeyReadRuns_Retry(data, apiKey, remote) ==
    IF Get(SSHKeyResourceModelTags, data) # <<>>
    THEN {Run(<<>>, <<>>, Outcome(Get(SSHKeyResourceModelTags, data), NoWrite), remote)}
    ELSE LET req == MakeAPICall(apiKey, "GET", <<"ssh-keys">>, Nil)
         IN  UNION {IF x.resp \in Faults
                    THEN {Run(<<req, req>>, <<y.resp>>, SSHKeyReadResponse(data, y.resp),
                              y.remote)
                          : y \in ListKeysExchange(x.remote)}
                    ELSE {Run(<<req>>, <<x.resp>>, SSHKeyReadResponse(data, x.resp),
                              x.remote)}
                    : x \in ListKeysExchange(remote)}

\* SSHKeyResource.Read: every way one invocation can go
SSHKeyReadRuns(data, apiKey, remote) ==
    IF Get(SSHKeyResourceModelTags, data) # <<>>
    THEN {Run(<<>>, <<>>, Outcome(Get(SSHKeyResourceModelTags, data), NoWrite), remote)}
    ELSE LET req == MakeAPICall(apiKey, "GET", <<"ssh-keys">>, Nil)
         IN  IF req = NilDereference THEN {Run(<<>>, <<>>, Panic, remote)}
             ELSE {Run(<<req>>, <<x.resp>>, SSHKeyReadResponse(data, x.resp), x.remote)
                   : x \in ListKeysExchange(remote)}

\* SSHKeyResource.Update
SSHKeyUpdateRuns(data, apiKey, remote) ==
    IF Get(SSHKeyResourceModelTags, data) # <<>>
    THEN {Run(<<>>, <<>>, Outcome(Get(SSHKeyResourceModelTags, data), NoWrite), remote)}
    ELSE {Run(<<>>, <<>>, Outcome(<<>>, SetState(data)), remote)}

\* Delete, after the DELETE returned
SSHKeyDeleteResponse(data, resp) ==
    IF resp.err THEN Outcome(<<Diag("Client Error", "Unable to create example")>>, NoWrite)
    ELSE IF resp.status # StatusOK THEN Outcome(ErrorDiags(resp.body), NoWrite)
    ELSE Outcome(<<>>, NoWrite)

SSHKeyDeleteRuns(data, apiKey, remote) ==
    IF Get(SSHKeyResourceModelTags, data) # <<>>
    THEN {Run(<<>>, <<>>, Outcome(Get(SSHKeyResourceModelTags, data), NoWrite), remote)}
    ELSE LET req == MakeAPICall(apiKey, "DELETE", <<"ssh-keys", ValueString(data.id)>>, Nil)
         IN  IF req = NilDereference THEN {Run(<<>>, <<>>, Panic, remote)}
             ELSE {Run(<<req>>, <<x.resp>>, SSHKeyDeleteResponse(data, x.resp), x.remote)
                   : x \in DeleteKeyExchange(remote, req.url[2])}

\* SSHKeyResource.ImportState: resource.ImportStatePassthroughID on path id
SSHKeyImportRuns(id, apiKey, remote) ==
    {Run(<<>>, <<>>,
         Outcome(<<>>, SetState([name |-> Null, public_key |-> Null, private_key |-> Null,
                                 id |-> StringValue(id)])),
         remote)}

----------------------------------------------------------------------------
(* The host: what it hands to the handlers, and what it keeps of a run *)

InstancePlans ==
    {[region_name |-> r, instance_type_name |-> t, ssh_key_names |-> ListValue(k),
      file_system_names |-> f, name |-> n, ip |-> Unknown, status |-> Unknown,
      id |-> Unknown]
     : r \in Regions, t \in InstanceTypes, k \in SeqsUpTo(KeyNames, MaxKeys),
       f \in {ListNull} \cup {ListValue(<<x>>) : x \in FileSystems},
       n \in {Null} \cup DisplayNames}

\* plans of an in-place update of an instance: a configuration that differs
\* from the state; ip, status and id are planned as the state has them
InstanceUpdatePlans(cur) ==
    {[cur EXCEPT !.name = n] : n \in ({Null} \cup DisplayNames) \ {cur.name}}

SSHKeyPlans ==
    {[name |-> n, public_key |-> p, private_key |-> Unknown, id |-> Unknown]
     : n \in SSHKeyResourceNames, p \in {Null} \cup PublicKeys}

\* plans of an in-place update of an SSH key: a configuration that differs from
\* the state in name or public_key; id is planned as the state has it, and
\* private_key, computed with no plan modifier, is unknown
SSHKeyUpdatePlans(cur) ==
    {[name |-> n, public_key |-> p, private_key |-> Unknown, id |-> cur.id]
     : n \in SSHKeyResourceNames, p \in {Null} \cup PublicKeys}
    \ {[cur EXCEPT !.private_key = Unknown]}

InstanceIdentity(d) == <<d.region_name, d.instance_type_name, d.ssh_key_names>>
SSHKeyIdentity(d) == <<d.name>>

NoInvocation ==
    [kind |-> "none", op |-> "none", input |-> <<>>, id |-> Null, identity |-> <<>>,
     requests |-> <<>>, resp |-> <<>>, diags |-> <<>>, panicked |-> FALSE,
     write |-> NoWrite]

Invocation(kind, op, input, id, identity, run) ==
    [kind |-> kind, op |-> op, input |-> <<input>>, id |-> id, identity |-> identity,
     requests |-> run.requests, resp |-> run.resp, diags |-> run.diags,
     panicked |-> run.panicked, write |-> run.write]

Succeeded(inv) == inv.diags = <<>> /\ ~inv.panicked

\* what the host remembers of the invocation before the last one; the desired
\* identity fields only of a Create
Summary(inv) ==
    [kind |-> inv.kind, op |-> inv.op, ok |-> Succeeded(inv),
     desired |-> IF inv.op = "Create" THEN inv.identity ELSE <<>>]

\* the host runs the resources' handlers only once the provider is configured
Configured == providerData # Nil /\ configDiags = <<>>
Manages(kind) == Configured /\ managed = kind

Init ==
    /\ managed \in {"instance", "sshkey"}
    /\ providerData = Nil
    /\ configDiags = <<>>
    /\ instState = NoState
    /\ keyState = NoState
    /\ remoteInstances = {}
    /\ remoteKeys = <<>>
    /\ last = NoInvocation
    /\ prev = Summary(NoInvocation)

Remember(inv) ==
    /\ last' = inv
    /\ prev' = Summary(last)

ProviderConfigure ==
    /\ providerData = Nil
    /\ \E c \in ConfigValues, env \in EnvValues :
         LET res == ProviderConfigureResult([api_key |-> c], env)
         IN  /\ providerData' = res.resourceData
             /\ configDiags' = res.diags
             /\ Remember(Invocation("provider", "Configure", [api_key |-> c, env |-> env],
                                    Null, <<>>,
                                    Run(<<>>, <<>>, Outcome(res.diags, NoWrite), {})))
    /\ UNCHANGED <<managed, instState, keyState, remoteInstances, remoteKeys>>

InstanceCreate ==
    /\ Manages("instance")
    /\ instState = NoState
    /\ \E data \in InstancePlans :
         \E run \in InstanceCreateRuns(data, ResourceConfigure(providerData), remoteInstances) :
           /\ instState' = ApplyWrite(instState, run.write)
           /\ remoteInstances' = run.remote
           /\ Remember(Invocation("instance", "Create", data, Null,
                                  InstanceIdentity(data), run))
    /\ UNCHANGED <<managed, providerData, configDiags, keyState, remoteKeys>>

InstanceRead ==
    /\ Manages("instance")
    /\ instState # NoState
    /\ LET data == instState[1] IN
         \E run \in InstanceReadRuns(data, ResourceConfigure(providerData), remoteInstances) :
           /\ instState' = ApplyWrite(instState, run.write)
           /\ remoteInstances' = run.remote
           /\ Remember(Invocation("instance", "Read", data, data.id,
                                  InstanceIdentity(data), run))
    /\ UNCHANGED <<managed, providerData, configDiags, keyState, remoteKeys>>

InstanceUpdate ==
    /\ Manages("instance")
    /\ instState # NoState
    /\ \E data \in InstanceUpdatePlans(instState[1]) :
         \E run \in InstanceUpdateRuns(data, ResourceConfigure(providerData), remoteInstances) :
           /\ instState' = ApplyWrite(instState, run.write)
           /\ remoteInstances' = run.remote
           /\ Remember(Invocation("instance", "Update", data, data.id,
                                  InstanceIdentity(data), run))
    /\ UNCHANGED <<managed, providerData, configDiags, keyState, remoteKeys>>

\* The host removes the resource from its state when Delete reports no error.
\* It may send the Delete it last sent once more, with the same prior state.
InstanceDelete ==
    /\ Manages("instance")
    /\ \E data \in {instState[j] : j \in 1..Len(instState)}
                   \cup {last.input[1] : j \in {1} \cap
                            {IF last.kind = "instance" /\ last.op = "Delete"
                                /\ Succeeded(last) THEN 1 ELSE 0}} :
         \E run \in InstanceDeleteRuns(data, ResourceConfigure(providerData), remoteInstances) :
           /\ instState' = IF run.diags = <<>> /\ ~run.panicked THEN NoState ELSE instState
           /\ remoteInstances' = run.remote
           /\ Remember(Invocation("instance", "Delete", data, data.id,
                                  InstanceIdentity(data), run))
    /\ UNCHANGED <<managed, providerData, configDiags, keyState, remoteKeys>>

InstanceImportState ==
    /\ Manages("instance")
    /\ instState = NoState
    /\ \E id \in InstanceIds \cup UnparsableIds :
         \E run \in InstanceImportRuns(id, ResourceConfigure(providerData), remoteInstances) :
           /\ instState' = ApplyWrite(instState, run.write)
           /\ remoteInstances' = run.remote
           /\ Remember(Invocation("instance", "Import", id, id, <<>>, run))
    /\ UNCHANGED <<managed, providerData, configDiags, keyState, remoteKeys>>

SSHKeyCreate ==
    /\ Manages("sshkey")
    /\ keyState = NoState
    /\ \E data \in SSHKeyPlans :
         \E run \in SSHKeyCreateRuns(data, ResourceConfigure(providerData), remoteKeys) :
           /\ keyState' = ApplyWrite(keyState, run.write)
           /\ remoteKeys' = run.remote
           /\ Remember(Invocation("sshkey", "Create", data, Null, SSHKeyIdentity(data), run))
    /\ UNCHANGED <<managed, providerData, configDiags, instState, remoteInstances>>

SSHKeyRead ==
    /\ Manages("sshkey")
    /\ keyState # NoState
    /\ LET data == keyState[1] IN
         \E run \in SSHKeyReadRuns(data, ResourceConfigure(providerData), remoteKeys) :
           /\ keyState' = ApplyWrite(keyState, run.write)
           /\ remoteKeys' = run.remote
           /\ Remember(Invocation("sshkey", "Read", data, data.id, SSHKeyIdentity(data), run))
    /\ UNCHANGED <<managed, providerData, configDiags, instState, remoteInstances>>

SSHKeyUpdate ==
    /\ Manages("sshkey")
    /\ keyState # NoState
    /\ \E data \in SSHKeyUpdatePlans(keyState[1]) :
         \E run \in SSHKeyUpdateRuns(data, ResourceConfigure(providerData), remoteKeys) :
           /\ keyState' = ApplyWrite(keyState, run.write)
           /\ remoteKeys' = run.remote
           /\ Remember(Invocation("sshkey", "Update", data, data.id, SSHKeyIdentity(data), run))
    /\ UNCHANGED <<managed, providerData, configDiags, instState, remoteInstances>>

SSHKeyDelete ==
    /\ Manages("sshkey")
    /\ keyState # NoState
    /\ LET data == keyState[1] IN
         \E run \in SSHKeyDeleteRuns(data, ResourceConfigure(providerData), remoteKeys) :
           /\ keyState' = IF run.diags = <<>> /\ ~run.panicked THEN NoState ELSE keyState
           /\ remoteKeys' = run.remote
           /\ Remember(Invocation("sshkey", "Delete", data, data.id, SSHKeyIdentity(data), run))
    /\ UNCHANGED <<managed, providerData, configDiags, instState, remoteInstances>>

SSHKeyImportState ==
    /\ Manages("sshkey")
    /\ keyState = NoState
    /\ \E id \in KeyIds \cup UnparsableIds :
         \E run \in SSHKeyImportRuns(id, ResourceConfigure(providerData), remoteKeys) :
           /\ keyState' = ApplyWrite(keyState, run.write)
           /\ remoteKeys' = run.remote
           /\ Remember(Invocation("sshkey", "Import", id, id, <<>>, run))
    /\ UNCHANGED <<managed, providerData, configDiags, instState, remoteInstances>>

\* an instance is terminated behind the provider's back
RemoteInstanceVanishes ==
    /\ managed = "instance"
    /\ \E i \in remoteInstances : remoteInstances' = remoteInstances \ {i}
    /\ UNCHANGED <<managed, providerData, configDiags, instState, keyState, remoteKeys, last, prev>>

\* an SSH key is deleted behind the provider's back
RemoteKeyVanishes ==
    /\ managed = "sshkey"
    /\ \E j \in 1..Len(remoteKeys) :
         remoteKeys' = SelectSeq(remoteKeys, LAMBDA k : k.id # remoteKeys[j].id)
    /\ UNCHANGED <<managed, providerData, configDiags, instState, keyState, remoteInstances, last, prev>>

\* an SSH key is added to the account by someone else (one such key at a time)
RemoteKeyAppears ==
    /\ managed = "sshkey"
    /\ FreeKeyNumbers(remoteKeys) # {}
    /\ \A j \in 1..Len(remoteKeys) : remoteKeys[j].name # ForeignName
    /\ LET k == Lowest(FreeKeyNumbers(remoteKeys), 1, 1)[1] IN
         remoteKeys' = Append(remoteKeys,
                              [id |-> KeyIdOf(k), name |-> ForeignName,
                               public_key |-> GeneratedPublic, private_key |-> ""])
    /\ UNCHANGED <<managed, providerData, configDiags, instState, keyState, remoteInstances, last, prev>>

Next ==
    \/ ProviderConfigure
    \/ InstanceCreate
    \/ InstanceRead
    \/ InstanceUpdate
    \/ InstanceDelete
    \/ InstanceImportState
    \/ SSHKeyCreate
    \/ SSHKeyRead
    \/ SSHKeyUpdate
    \/ SSHKeyDelete
    \/ SSHKeyImportState
    \/ RemoteInstanceVanishes
    \/ RemoteKeyVanishes
    \/ RemoteKeyAppears

Spec == Init /\ [][Next]_vars

----------------------------------------------------------------------------
(* findKey on its own: any list of SSH keys, identifiers repeated or not,   *)
(* and any identifier to look for                                           *)

\* longest list of keys handed to findKey
MaxListed == 3

\* the SSHKey values a decoded list may hold
ListedKeys ==
    {[id |-> i, name |-> n, public_key |-> GeneratedPublic, private_key |-> ""]
     : i \in KeyIds, n \in SSHKeyResourceNames}

\* identifiers looked for: those of listed keys, the empty one, and one that
\* differs from a listed one in case only
TargetIds == KeyIds \cup {"", "SSHKEY-1"}

\* one call of findKey: the list and identifier it was given, what it returned
Found(keys, id, key) ==
    [kind |-> "sshkey", op |-> "findKey", input |-> <<keys>>, id |-> id, found |-> key]

MatcherInit ==
    /\ managed = "sshkey"
    /\ providerData = Nil
    /\ configDiags = <<>>
    /\ instState = NoState
    /\ keyState = NoState
    /\ remoteInstances = {}
    /\ remoteKeys \in SeqsUpTo(ListedKeys, MaxListed)
    /\ last = NoInvocation
    /\ prev = Summary(NoInvocation)

\* findKey(keys, id) on the list at hand; the slice is passed by reference and
\* the function stores nothing in it
ApplyFindKey ==
    /\ \E id \in TargetIds : last' = Found(remoteKeys, id, findKey(remoteKeys, id))
    /\ UNCHANGED <<managed, providerData, configDiags, instState, keyState,
                   remoteInstances, remoteKeys, prev>>

MatcherNext == ApplyFindKey

MatcherSpec == MatcherInit /\ [][MatcherNext]_vars

----------------------------------------------------------------------------
(* Properties *)

\* the last invocation got an answer from the service (no transport failure)
Answered(inv) == inv.resp # <<>> /\ ~inv.resp[1].err
AnsweredWith(inv, status) == Answered(inv) /\ inv.resp[1].status = status
\* ... a 200 whose body decodes
AnsweredData(inv) == AnsweredWith(inv, StatusOK) /\ inv.resp[1].body.valid
AnswerOf(inv) == inv.resp[1].body.data[1]
Is(inv, kind, op) == inv.kind = kind /\ inv.op = op
Wrote(inv) == inv.write[1] = "set"
Written(inv) == inv.write[2]

\* the record of a key list at the lowest index with the identifier
HasId(keys, id) == \E j \in 1..Len(keys) : keys[j].id = id
FirstWithId(keys, id) ==
    keys[CHOOSE j \in 1..Len(keys) :
            keys[j].id = id /\ \A i \in 1..(j - 1) : keys[i].id # id]

\* C1: instance Create of a record whose ssh_key_names has a size other than 1
\* fails with a validation error (an error diagnostic, no panic) and sends no
\* request.
C1_CreateValidatesKeyCount ==
    (Is(last, "instance", "Create") /\ Len(last.input[1].ssh_key_names.elems) # 1)
        => /\ last.requests = <<>>
           /\ last.diags # <<>>
           /\ ~last.panicked
           /\ last.write = NoWrite

\* C2: a second instance Delete of a handle whose Delete just succeeded, answered
\* 404 by the service whatever the body, reports no error.
C2_SecondDeleteNoError ==
    (Is(last, "instance", "Delete") /\ prev.kind = "instance" /\ prev.op = "Delete"
       /\ prev.ok /\ AnsweredWith(last, StatusNotFound))
        => Succeeded(last)

\* C3: SSH-key Delete answered not-found succeeds, with exactly one request.
C3_KeyDeleteNotFoundSucceeds ==
    (Is(last, "sshkey", "Delete") /\ AnsweredWith(last, StatusNotFound))
        => Succeeded(last) /\ Len(last.requests) = 1

\* C4: Read of a handle whose remote object is gone (instance: 404; SSH key: a
\* 200 list without the identifier) removes the local record and reports no
\* error.
C4_ReadOfGoneIsAbsent ==
    /\ (Is(last, "instance", "Read") /\ AnsweredWith(last, StatusNotFound))
          => /\ last.write = RemoveResource
             /\ Succeeded(last)
             /\ instState = NoState
    /\ (Is(last, "sshkey", "Read") /\ AnsweredData(last)
          /\ ~HasId(AnswerOf(last), last.id))
          => /\ last.write = RemoveResource
             /\ Succeeded(last)
             /\ keyState = NoState

C4_Witness ==
    /\ Is(last, "instance", "Read")
    /\ AnsweredWith(last, StatusNotFound)
    /\ last.resp[1].body.valid
    /\ instState = NoState

\* the Read's answer carries, for the handle, the identity fields the Create
\* before it asked for
RemoteEchoes(inv, desired) ==
    IF inv.kind = "instance"
    THEN /\ AnswerOf(inv).region = ValueString(desired[1])
         /\ AnswerOf(inv).instance_type = ValueString(desired[2])
         /\ AnswerOf(inv).ssh_key_names = Marshal(ElementsAs(desired[3]))
    ELSE FirstWithId(AnswerOf(inv), inv.id).name = ValueString(desired[1])

IdentityOf(kind, d) == IF kind = "instance" THEN InstanceIdentity(d) ELSE SSHKeyIdentity(d)
StateOf(kind) == IF kind = "instance" THEN instState ELSE keyState

\* C5: a Read right after a successful Create, answered by a service that echoes
\* what the Create asked for, gives a record with the desired identity fields.
C5_CreateThenReadKeepsIdentity ==
    (prev.op = "Create" /\ prev.ok /\ last.kind = prev.kind /\ last.op = "Read"
       /\ Wrote(last) /\ RemoteEchoes(last, prev.desired))
        => /\ IdentityOf(last.kind, Written(last)) = prev.desired
           /\ StateOf(last.kind) = State(Written(last))

C5_Witness ==
    /\ prev.op = "Create" /\ prev.ok /\ prev.kind = "instance"
    /\ Is(last, "instance", "Read") /\ Wrote(last)
    /\ RemoteEchoes(last, prev.desired)
    /\ instState # NoState
    /\ Len(instState[1].ssh_key_names.elems) = 1
    /\ instState[1].region_name \in Regions

\* C6: a successful Read right after Import sets every observed field from the
\* response; for instances that includes ip and status.
C6_ImportThenReadPopulates ==
    (prev.op = "Import" /\ prev.ok /\ last.kind = prev.kind /\ last.op = "Read"
       /\ Wrote(last))
        => IF last.kind = "instance"
           THEN /\ Written(last).id = last.id
                /\ Written(last).region_name = AnswerOf(last).region
                /\ Written(last).instance_type_name = AnswerOf(last).instance_type
                /\ Written(last).ssh_key_names
                       = ListValueFrom(Unmarshal(AnswerOf(last).ssh_key_names))
                /\ Written(last).ip = AnswerOf(last).ip
                /\ Written(last).status = AnswerOf(last).status
           ELSE LET key == FirstWithId(AnswerOf(last), last.id)
                IN  /\ Written(last).id = key.id
                    /\ Written(last).name = key.name
                    /\ Written(last).public_key = key.public_key

\* C7: instance Create on a decodable 200 binds the handle exactly when the
\* response carries one id (ip and status cleared); with any other count it
\* reports the cardinality error and returns no record.
C7_CreateBindsOnExactlyOneId ==
    (Is(last, "instance", "Create") /\ AnsweredData(last))
        => LET ids == AnswerOf(last).instance_ids.elems
           IN  IF Len(ids) = 1
               THEN /\ Succeeded(last)
                    /\ Wrote(last)
                    /\ Written(last) = [last.input[1] EXCEPT !.id = ids[1],
                                                             !.ip = Null, !.status = Null]
                    /\ instState = State(Written(last))
               ELSE /\ last.diags # <<>>
                    /\ last.diags[1].summary = "resp error"
                    /\ last.write = NoWrite
                    /\ instState = NoState

C7_Witness ==
    /\ Is(last, "instance", "Create")
    /\ AnsweredData(last)
    /\ Len(AnswerOf(last).instance_ids.elems) = MaxLaunched
    /\ MaxLaunched > 1
    /\ instState = NoState

\* the private key the response of an SSH-key Create or Read carries for the key
PrivateMaterialOf(inv) ==
    IF inv.op = "Create" THEN AnswerOf(inv).private_key
    ELSE FirstWithId(AnswerOf(inv), inv.id).private_key

\* C8: in a record returned by SSH-key Create or Read, private_key is the
\* response's private key when that is non-empty, and null otherwise.
C8_PrivateKeyOnlyFromResponse ==
    (last.kind = "sshkey" /\ last.op \in {"Create", "Read"} /\ Wrote(last))
        => /\ Written(last).private_key
                 = (IF PrivateMaterialOf(last) # "" THEN PrivateMaterialOf(last) ELSE Null)
           /\ Written(last).private_key # ""
           /\ keyState = State(Written(last))

C8_Witness ==
    /\ Is(last, "sshkey", "Read") /\ Wrote(last)
    /\ last.input[1].private_key = PrivateMaterial
    /\ PrivateMaterialOf(last) = ""
    /\ keyState[1].private_key = Null

\* C9: Update of either kind sends no request, reports no error and returns the
\* planned record.
C9_UpdateRepersistsPlan ==
    last.op = "Update"
        => /\ last.requests = <<>>
           /\ Succeeded(last)
           /\ last.write = SetState(last.input[1])

\* C10: provider Configure takes the configured api_key when there is one, else
\* the environment's; reports an error when that gives no credential; and hands
\* the resources a credential only when it is non-empty.
C10_ConfigureResolvesCredential ==
    Is(last, "provider", "Configure")
        => LET config == last.input[1].api_key
               expected == IF config # Null THEN config ELSE last.input[1].env
           IN  /\ expected = "" => configDiags # <<>>
               /\ expected # "" => configDiags = <<>> /\ providerData = expected
               /\ providerData # Nil => providerData # ""

\* C11: the handle is stable. While a record of either kind stays in the state
\* (through Reads, Updates and failed operations, until a Delete or an Absent
\* Read removes it), its id is the one the Create or Import bound.
C11_HandleStable ==
    [][\A kind \in {"instance", "sshkey"} :
          (StateOf(kind) # NoState /\ StateOf(kind)' # NoState)
              => StateOf(kind)'[1].id = StateOf(kind)[1].id]_vars

\* an SSH-key Read that kept the handle although the service lists another key
\* before the handle's
C11_Witness ==
    /\ Is(last, "sshkey", "Read") /\ Wrote(last)
    /\ AnswerOf(last)[1].id # last.id
    /\ keyState = State(Written(last))
    /\ keyState[1].id = last.id
    /\ keyState[1].id \in KeyIds

\* C12: instance Create of a record with exactly one SSH-key name, with or
\* without a display name and file-system names, does not fail before the call:
\* it sends exactly one launch request, whose body carries the region, the
\* instance type, the SSH-key names, quantity 1, the display name exactly when it
\* is set and the file-system names exactly when they are set.
C12_CreateSendsOneLaunch ==
    (Is(last, "instance", "Create") /\ Len(last.input[1].ssh_key_names.elems) = 1)
        => /\ ~last.panicked
           /\ Len(last.requests) = 1
           /\ LET desired == last.input[1]
                  body == last.requests[1].body
              IN  /\ last.requests[1].url = <<"instance-operations/launch">>
                  /\ body.region_name = desired.region_name
                  /\ body.instance_type_name = desired.instance_type_name
                  /\ body.ssh_key_names = JsonArray(desired.ssh_key_names.elems)
                  /\ body.Quantity = 1
                  /\ body.name = (IF desired.name = Null THEN Nil ELSE desired.name)
                  /\ body.file_system_names
                         = (IF desired.file_system_names = ListNull THEN JsonOmitted
                            ELSE JsonArray(desired.file_system_names.elems))

\* the same for the records that set no display name
C12_CreateWithoutNameSendsOneLaunch ==
    (Is(last, "instance", "Create") /\ last.input[1].name = Null)
        => C12_CreateSendsOneLaunch

\* the handler of the invocation tolerates a not-found answer
ToleratesNotFound(inv) == Is(inv, "instance", "Read") \/ Is(inv, "instance", "Delete")
\* the handler of the invocation reads the body of a 200 answer
DecodesSuccess(inv) == ~Is(inv, "sshkey", "Delete")

\* the exchange of the invocation failed: the call itself, a status that is
\* neither success nor a tolerated not-found, or a body the handler could not
\* decode
FatalAnswer(inv) ==
    /\ inv.resp # <<>>
    /\ \/ inv.resp[1].err
       \/ inv.resp[1].status \notin {StatusOK, StatusNotFound}
       \/ inv.resp[1].status = StatusNotFound /\ ~ToleratesNotFound(inv)
       \/ inv.resp[1].status = StatusOK /\ ~inv.resp[1].body.valid /\ DecodesSuccess(inv)

\* C13: a lifecycle operation of either kind whose exchange fails (transport
\* failure, undecodable body, non-success status other than a tolerated
\* not-found), or that reports an error for any other reason, reports the error
\* and writes no state: the local record is neither set nor removed.
C13_FatalErrorWritesNothing ==
    [][(last'.kind \in {"instance", "sshkey"}
          /\ (FatalAnswer(last') \/ last'.diags # <<>>))
         => /\ last'.diags # <<>>
            /\ last'.write = NoWrite
            /\ instState' = instState
            /\ keyState' = keyState]_vars

\* an instance Read answered 200 with a body that does not decode: the error is
\* reported and the record is still the one the Read was given
C13_Witness ==
    /\ Is(last, "instance", "Read")
    /\ AnsweredWith(last, StatusOK) /\ ~last.resp[1].body.valid
    /\ FatalAnswer(last)
    /\ last.diags # <<>>
    /\ instState = State(last.input[1])

\* C14: every lifecycle operation is a single exchange. A Create, Read or Delete
\* invocation of either kind sends at most one request, also when the exchange
\* fails; an Update or Import invocation sends none.
C14_SingleExchange ==
    last.kind \in {"instance", "sshkey"}
        => /\ Len(last.requests) <= 1
           /\ Len(last.resp) = Len(last.requests)
           /\ last.op \in {"Update", "Import"} => last.requests = <<>>

\* an SSH-key Read whose one request failed in transport
C14_Witness ==
    /\ Is(last, "sshkey", "Read")
    /\ Len(last.requests) = 1
    /\ last.resp[1].err
    /\ last.diags # <<>>
    /\ keyState = State(last.input[1])

\* C15: findKey, for every list of keys and every identifier, returns the record
\* at the lowest index whose identifier equals the target exactly, also when
\* several records share it; returns nil exactly when no record has it (the
\* empty list included); and leaves the list as it was.
C15_FindKeyFirstMatch ==
    last.op = "findKey"
        => LET keys == last.input[1]
               id == last.id
           IN  /\ (last.found = <<>>) <=> ~HasId(keys, id)
               /\ HasId(keys, id) => last.found = <<FirstWithId(keys, id)>>
               /\ last.found # <<>> => last.found[1].id = id
               /\ remoteKeys = keys

\* findKey found the first of two keys that share the identifier and differ in
\* name, behind a key with another identifier
C15_Witness ==
    /\ last.op = "findKey"
    /\ Len(last.input[1]) = 3
    /\ last.input[1][1].id # last.id
    /\ last.input[1][2].id = last.id
    /\ last.input[1][3].id = last.id
    /\ last.input[1][2].name # last.input[1][3].name
    /\ last.found = <<last.input[1][2]>>

\* findKey reported absence for the empty list
C15_EmptyListAbsent ==
    /\ last.op = "findKey"
    /\ last.input[1] = <<>>
    /\ last.found = <<>>

====
